---- MODULE Spec2Model ----
(***************************************************************************)
(* ShopGenie-E: intent extraction -> catalog filter -> multi-criteria      *)
(* ranking with per-item explanations.                                     *)
(*                                                                         *)
(* Conventions of the model                                                *)
(*  - Python str values are sequences of one-character strings, so that    *)
(*    strip(), lower(), replace() and the "in" substring test are computed.*)
(*  - A Python/JSON value is a tagged record [t |-> tag, v |-> payload].   *)
(*  - A float is an exact rational [n |-> numerator, d |-> denominator]    *)
(*    in lowest terms (d > 0); IEEE-754 rounding is not modelled.          *)
(*  - A DataFrame is [columns |-> set of names, rows |-> sequence of       *)
(*    functions from the columns to cells].                                *)
(***************************************************************************)
EXTENDS Integers, Sequences, FiniteSets, TLC

(* ------------------------------------------------------------------ *)
(* Bounds of the model                                                 *)
(* ------------------------------------------------------------------ *)
\* largest number of rows of the loaded catalog
MaxRows == 3
\* longest primary_goals list handed to the weight resolver on its own
MaxGoals == 2

(* ------------------------------------------------------------------ *)
(* Python values                                                       *)
(* ------------------------------------------------------------------ *)
PyNone == [t |-> "none", v |-> <<>>]
NaN == [t |-> "nan", v |-> <<>>]
Num(x) == [t |-> "num", v |-> x]
Str(s) == [t |-> "str", v |-> s]
List(l) == [t |-> "list", v |-> l]
Dict(d) == [t |-> "dict", v |-> d]
EmptyDict == Dict(<<>>)

\* dict.get(key): the value, or None when the key is absent
DictGet(d, k) == IF k \in DOMAIN d.v THEN d.v[k] ELSE PyNone

(* ------------------------------------------------------------------ *)
(* Strings                                                             *)
(* ------------------------------------------------------------------ *)
UpperChars ==
  <<"A","B","C","D","E","F","G","H","I","J","K","L","M",
    "N","O","P","Q","R","S","T","U","V","W","X","Y","Z">>
LowerChars ==
  <<"a","b","c","d","e","f","g","h","i","j","k","l","m",
    "n","o","p","q","r","s","t","u","v","w","x","y","z">>
DigitChars == <<"0","1","2","3","4","5","6","7","8","9">>

LowerChar(c) ==
  IF \E i \in DOMAIN UpperChars : UpperChars[i] = c
    THEN LowerChars[CHOOSE i \in DOMAIN UpperChars : UpperChars[i] = c]
    ELSE c

\* str.lower()
Lower(s) == [i \in DOMAIN s |-> LowerChar(s[i])]

IsSpace(c) == c = " "

\* str.strip(): drop leading and trailing whitespace
Strip(s) ==
  LET keep == {i \in DOMAIN s : ~IsSpace(s[i])}
  IN IF keep = {} THEN <<>>
     ELSE LET lo == CHOOSE i \in keep : \A j \in keep : i <= j
              hi == CHOOSE i \in keep : \A j \in keep : j <= i
          IN SubSeq(s, lo, hi)

\* str.replace(c, ""): drop every occurrence of the character c
RECURSIVE RemoveChar(_, _)
RemoveChar(s, c) ==
  IF s = <<>> THEN <<>>
  ELSE IF Head(s) = c THEN RemoveChar(Tail(s), c)
  ELSE <<Head(s)>> \o RemoveChar(Tail(s), c)

\* sub in s
Contains(s, sub) ==
  \E i \in 0..(Len(s) - Len(sub)) : SubSeq(s, i + 1, i + Len(sub)) = sub

DigitValue(c) == (CHOOSE i \in DOMAIN DigitChars : DigitChars[i] = c) - 1
IsDigit(c) == \E i \in DOMAIN DigitChars : DigitChars[i] = c

RECURSIVE DigitsValue(_)
DigitsValue(s) ==
  IF s = <<>> THEN 0
  ELSE DigitsValue(SubSeq(s, 1, Len(s) - 1)) * 10 + DigitValue(s[Len(s)])

\* the outcome of a call that raised the exception named e
Raised(e) == [t |-> "raise", v |-> e]

\* float(text) for the texts of the model: a run of decimal digits parses to
\* its value, any other text raises ValueError
ParseFloat(s) ==
  IF s # <<>> /\ \A i \in DOMAIN s : IsDigit(s[i])
    THEN Num(DigitsValue(s))
    ELSE Raised("ValueError")

\* str(value) of a number of the model: its decimal digits
RECURSIVE NumToStr(_)
NumToStr(x) ==
  IF x < 10 THEN <<DigitChars[x + 1]>>
  ELSE NumToStr(x \div 10) \o <<DigitChars[(x % 10) + 1]>>

(* ------------------------------------------------------------------ *)
(* Exact rationals standing for floats                                 *)
(* ------------------------------------------------------------------ *)
Abs(x) == IF x < 0 THEN -x ELSE x

RECURSIVE GCD(_, _)
GCD(a, b) == IF b = 0 THEN a ELSE GCD(b, a % b)

Rat(n, d) ==
  LET g == GCD(Abs(n), Abs(d))
      sgn == IF d < 0 THEN -1 ELSE 1
  IN [n |-> sgn * (n \div g), d |-> sgn * (d \div g)]

RAdd(a, b) == Rat(a.n * b.d + b.n * a.d, a.d * b.d)
RSub(a, b) == Rat(a.n * b.d - b.n * a.d, a.d * b.d)
RMul(a, b) == Rat(a.n * b.n, a.d * b.d)
RDiv(a, b) == Rat(a.n * b.d, a.d * b.n)
RLe(a, b) == a.n * b.d <= b.n * a.d
RLt(a, b) == a.n * b.d < b.n * a.d
RInt(x) == Rat(x, 1)

(* ------------------------------------------------------------------ *)
(* Texts used by the program and by the inputs of the model            *)
(* ------------------------------------------------------------------ *)
s_laptop == <<"l","a","p","t","o","p">>
s_notebook == <<"n","o","t","e","b","o","o","k">>
s_ultrabook == <<"u","l","t","r","a","b","o","o","k">>
s_phone == <<"p","h","o","n","e">>
s_smartphone == <<"s","m","a","r","t","p","h","o","n","e">>
s_mobile == <<"m","o","b","i","l","e">>
s_tablet == <<"t","a","b","l","e","t">>
s_ipad == <<"i","p","a","d">>
s_tab == <<"t","a","b">>
s_monitor == <<"m","o","n","i","t","o","r">>
s_screen == <<"s","c","r","e","e","n">>
s_display == <<"d","i","s","p","l","a","y">>
s_performance == <<"p","e","r","f","o","r","m","a","n","c","e">>
s_speed == <<"s","p","e","e","d">>
s_gaming == <<"g","a","m","i","n","g">>
s_battery == <<"b","a","t","t","e","r","y">>
s_long_life == <<"l","o","n","g"," ","l","i","f","e">>
s_all_day == <<"a","l","l"," ","d","a","y">>
s_budget == <<"b","u","d","g","e","t">>
s_cheap == <<"c","h","e","a","p">>
s_affordable == <<"a","f","f","o","r","d","a","b","l","e">>
s_price == <<"p","r","i","c","e">>
s_bigger == <<"b","i","g","g","e","r">>
s_unknown_product ==
  <<"U","n","k","n","o","w","n"," ","p","r","o","d","u","c","t">>

(* ------------------------------------------------------------------ *)
(* retrieval_agent.py                                                  *)
(* ------------------------------------------------------------------ *)
\* the columns the loader coerces to numbers
NumericColumns ==
  {"price_usd", "ram_gb", "storage_gb", "battery_wh", "weight_kg", "screen_inches"}

\* the keyword table, in its insertion order
CATEGORY_KEYWORDS ==
  << [cat |-> s_laptop,  keywords |-> <<s_laptop, s_notebook, s_ultrabook>>],
     [cat |-> s_phone,   keywords |-> <<s_phone, s_smartphone, s_mobile>>],
     [cat |-> s_tablet,  keywords |-> <<s_tablet, s_ipad, s_tab>>],
     [cat |-> s_monitor, keywords |-> <<s_monitor, s_screen, s_display>>] >>

KnownCategories == {CATEGORY_KEYWORDS[i].cat : i \in DOMAIN CATEGORY_KEYWORDS}

\* str(value): a number prints its digits, a string is itself, None prints
\* "None", a dict or a list prints a bracketed text
StrOf(val) ==
  CASE val.t = "num" -> NumToStr(val.v)
    [] val.t = "str" -> val.v
    [] val.t = "none" -> <<"N","o","n","e">>
    [] val.t = "dict" -> <<"{","}">>
    [] OTHER -> <<"[","]">>

\* the body of the try block of _get_float: a number, or a raised ValueError
FloatOfValue(val) == ParseFloat(Strip(RemoveChar(StrOf(val), "$")))

\* _get_float: the first key that is present, not None and parses; else None
RECURSIVE _get_float(_, _)
_get_float(intent, keys) ==
  IF keys = <<>> THEN PyNone
  ELSE LET k == Head(keys)
       IN IF k \in DOMAIN intent.v /\ intent.v[k].t # "none"
              /\ FloatOfValue(intent.v[k]).t = "num"
            THEN FloatOfValue(intent.v[k])
            ELSE _get_float(intent, Tail(keys))

\* step 1 of detect_category: the first of the three intent fields that is
\* a non-blank string naming a known category; PyNone when there is none
RECURSIVE CategoryFromIntent(_, _)
CategoryFromIntent(intent, keys) ==
  IF keys = <<>> THEN PyNone
  ELSE LET val == DictGet(intent, Head(keys))
       IN IF val.t = "str" /\ Strip(val.v) # <<>>
              /\ Lower(Strip(val.v)) \in KnownCategories
            THEN Str(Lower(Strip(val.v)))
            ELSE CategoryFromIntent(intent, Tail(keys))

\* a keyword scan that lets the last matching table entry win
CategoryFromQueryLast(q) ==
  LET hits == {i \in DOMAIN CATEGORY_KEYWORDS :
                 \E j \in DOMAIN CATEGORY_KEYWORDS[i].keywords :
                    Contains(q, CATEGORY_KEYWORDS[i].keywords[j])}
  IN IF hits = {} THEN PyNone
     ELSE Str(CATEGORY_KEYWORDS[CHOOSE i \in hits : \A j \in hits : j <= i].cat)

\* step 2 of detect_category: the first table entry with a keyword in q
CategoryFromQuery(q) ==
  LET hits == {i \in DOMAIN CATEGORY_KEYWORDS :
                 \E j \in DOMAIN CATEGORY_KEYWORDS[i].keywords :
                    Contains(q, CATEGORY_KEYWORDS[i].keywords[j])}
  IN IF hits = {} THEN PyNone
     ELSE Str(CATEGORY_KEYWORDS[CHOOSE i \in hits : \A j \in hits : i <= j].cat)

\* detect_category (intent is a dict here); the category as a text
detect_category(intent, user_query) ==
  LET fromIntent == CategoryFromIntent(intent, <<"category", "device_type", "product_type">>)
      fromQuery == CategoryFromQuery(Lower(user_query))
  IN IF fromIntent.t # "none" THEN fromIntent.v
     ELSE IF fromQuery.t # "none" THEN fromQuery.v
     ELSE s_laptop

\* df[df[col] == text]
RowsWhereEqual(df, col, text) ==
  [df EXCEPT !.rows = SelectSeq(df.rows, LAMBDA r : r[col].t = "str" /\ r[col].v = text)]

\* df[df[col] <= bound]: a NaN cell compares False
RowsAtMost(df, col, bound) ==
  [df EXCEPT !.rows =
     SelectSeq(df.rows, LAMBDA r : r[col].t = "num" /\ r[col].v <= bound)]

\* df[df[col].fillna(0) >= bound]
RowsAtLeast(df, col, bound) ==
  [df EXCEPT !.rows =
     SelectSeq(df.rows,
               LAMBDA r : (IF r[col].t = "num" THEN r[col].v ELSE 0) >= bound)]

BudgetKeys == <<"budget_max", "max_price", "budget", "price_cap">>
MinRamKeys == <<"min_ram_gb", "ram_min", "ram_gb_min", "min_ram">>
MinStorageKeys == <<"min_storage_gb", "storage_min", "min_storage">>
MinBatteryKeys == <<"min_battery_wh", "battery_min", "battery_wh_min">>

\* one "if bound is not None and col in df.columns" step of filter_products
ApplyMax(df, intent, keys, col) ==
  LET bound == _get_float(intent, keys)
  IN IF bound.t # "none" /\ col \in df.columns THEN RowsAtMost(df, col, bound.v) ELSE df

ApplyMin(df, intent, keys, col) ==
  LET bound == _get_float(intent, keys)
  IN IF bound.t # "none" /\ col \in df.columns THEN RowsAtLeast(df, col, bound.v) ELSE df

\* a fallback that forgets the category
FallbackWholeCatalog(catalog_df, df, category) ==
  IF df.rows = <<>> THEN catalog_df ELSE df

\* the fallback of filter_products when the filters leave nothing
FallbackFrame(catalog_df, df, category) ==
  IF df.rows = <<>> THEN RowsWhereEqual(catalog_df, "category", category) ELSE df

\* filter_products: the returned frame, or AttributeError when the intent is
\* not a dict (intent.get in detect_category)
filter_products(catalog_df, intent, user_query) ==
  IF intent.t # "dict" THEN Raised("AttributeError")
  ELSE LET category == detect_category(intent, user_query)
           df1 == RowsWhereEqual(catalog_df, "category", category)
           df2 == ApplyMax(df1, intent, BudgetKeys, "price_usd")
           df3 == ApplyMin(df2, intent, MinRamKeys, "ram_gb")
           df4 == ApplyMin(df3, intent, MinStorageKeys, "storage_gb")
           df5 == ApplyMin(df4, intent, MinBatteryKeys, "battery_wh")
       IN [t |-> "frame", v |-> FallbackFrame(catalog_df, df5, category)]

(* ------------------------------------------------------------------ *)
(* reasoner_agent.py                                                   *)
(* ------------------------------------------------------------------ *)
Half == Rat(1, 2)
RZero == Rat(0, 1)
ROne == Rat(1, 1)

\* pd.to_numeric(cell, errors="coerce"): a number, or NaN
ToNumeric(cell) ==
  CASE cell.t = "num" -> cell
    [] cell.t = "str" -> (IF ParseFloat(Strip(cell.v)).t = "num"
                            THEN ParseFloat(Strip(cell.v)) ELSE NaN)
    [] OTHER -> NaN

SeqMin(S) == CHOOSE x \in S : \A y \in S : x <= y
SeqMax(S) == CHOOSE x \in S : \A y \in S : y <= x

\* the denominator of math.isclose's default rel_tol = 1e-09
RelTolInverse == 1000000000

\* math.isclose(a, b) on whole numbers: |a-b| <= rel_tol * max(|a|,|b|)
IsClose(a, b) ==
  Abs(a - b) <= (IF Abs(a) >= Abs(b) THEN Abs(a) ELSE Abs(b)) \div RelTolInverse

\* a normalisation that ignores higher_is_better
NormalizeUndirected(series, higher_is_better) ==
  LET s == [i \in DOMAIN series |-> ToNumeric(series[i])]
      usable == {s[i].v : i \in {j \in DOMAIN s : s[j].t = "num"}}
  IN IF usable = {} THEN [i \in DOMAIN series |-> Half]
     ELSE LET min_val == SeqMin(usable)
              max_val == SeqMax(usable)
          IN IF IsClose(min_val, max_val) THEN [i \in DOMAIN series |-> Half]
             ELSE [i \in DOMAIN series |->
                     IF s[i].t # "num" THEN Half
                     ELSE Rat(s[i].v - min_val, max_val - min_val)]

\* _normalize_series: series is the sequence of the cells of one column
_normalize_series(series, higher_is_better) ==
  LET s == [i \in DOMAIN series |-> ToNumeric(series[i])]
      usable == {s[i].v : i \in {j \in DOMAIN s : s[j].t = "num"}}
  IN IF usable = {} THEN [i \in DOMAIN series |-> Half]
     ELSE LET min_val == SeqMin(usable)
              max_val == SeqMax(usable)
          IN IF IsClose(min_val, max_val) THEN [i \in DOMAIN series |-> Half]
             ELSE [i \in DOMAIN series |->
                     IF s[i].t # "num" THEN Half
                     ELSE LET norm == Rat(s[i].v - min_val, max_val - min_val)
                          IN IF higher_is_better THEN norm ELSE RSub(ROne, norm)]

Criteria == <<"price", "performance", "battery", "screen">>
CriteriaSet == {Criteria[i] : i \in DOMAIN Criteria}

PortableCategories == {s_laptop, s_tablet, s_phone}

\* the goals of _compute_weights, lower-cased: "primary_goals" or [], a lone
\* string wrapped in a list (inputs: absent, None, a string, a list)
GoalsLower(intent) ==
  LET goals_raw == DictGet(intent, "primary_goals")
  IN CASE goals_raw.t = "str" ->
            (IF goals_raw.v = <<>> THEN <<>> ELSE <<Lower(goals_raw.v)>>)
       [] goals_raw.t = "list" ->
            [i \in DOMAIN goals_raw.v |-> Lower(StrOf(goals_raw.v[i]))]
       [] OTHER -> <<>>

\* the base weights of the category
BaseWeights(category) ==
  IF category \in PortableCategories
    THEN [k \in CriteriaSet |->
            CASE k = "price" -> Rat(30, 100)
              [] k = "performance" -> Rat(40, 100)
              [] k = "battery" -> Rat(30, 100)
              [] OTHER -> Rat(0, 100)]
    ELSE [k \in CriteriaSet |->
            CASE k = "price" -> Rat(40, 100)
              [] k = "performance" -> Rat(10, 100)
              [] k = "battery" -> Rat(0, 100)
              [] OTHER -> Rat(50, 100)]

\* a bump that stops at one half
BumpCapped(weights, key) ==
  IF key \in DOMAIN weights
    THEN [weights EXCEPT ![key] =
            IF RLe(RAdd(@, Rat(15, 100)), Half) THEN RAdd(@, Rat(15, 100)) ELSE Half]
    ELSE weights

\* bump(key): weights[key] += 0.15
bump(weights, key) ==
  IF key \in DOMAIN weights
    THEN [weights EXCEPT ![key] = RAdd(@, Rat(15, 100))]
    ELSE weights

ContainsAny(g, words) == \E w \in words : Contains(g, w)

\* the four if-statements of the loop body, for one goal g
BumpForGoal(weights, g) ==
  LET w1 == IF ContainsAny(g, {s_performance, s_speed, s_gaming})
              THEN bump(weights, "performance") ELSE weights
      w2 == IF ContainsAny(g, {s_battery, s_long_life, s_all_day})
              THEN bump(w1, "battery") ELSE w1
      w3 == IF ContainsAny(g, {s_budget, s_cheap, s_affordable, s_price})
              THEN bump(w2, "price") ELSE w2
  IN IF ContainsAny(g, {s_screen, s_display, s_bigger})
       THEN bump(w3, "screen") ELSE w3

\* the weights after the loop over the goals, before normalisation
RECURSIVE BumpedWeights(_, _)
BumpedWeights(weights, goals) ==
  IF goals = <<>> THEN weights
  ELSE BumpedWeights(BumpForGoal(weights, Head(goals)), Tail(goals))

RECURSIVE RSum(_)
RSum(seq) == IF seq = <<>> THEN RZero ELSE RAdd(Head(seq), RSum(Tail(seq)))

WeightTotal(weights) == RSum([i \in DOMAIN Criteria |-> weights[Criteria[i]]])

\* a resolver that returns the bumped weights without normalising them
NormalizeSkipped(weights) == weights

\* the normalisation that ends _compute_weights
NormalizeWeights(weights) ==
  LET total == WeightTotal(weights)
  IN IF RLe(total, RZero)
       THEN [k \in DOMAIN weights |-> Rat(1, Cardinality(DOMAIN weights))]
       ELSE [k \in DOMAIN weights |-> RDiv(weights[k], total)]

_compute_weights(intent, category) ==
  NormalizeWeights(BumpedWeights(BaseWeights(category), GoalsLower(intent)))

\* the category rank_products reads from the first row
RankCategory(products) ==
  IF "category" \in products.columns
    THEN Lower(Strip(products.rows[1]["category"].v))
    ELSE s_laptop

\* the score of one criterion column, neutral when the column is absent
ColumnScore(df, col, higher_is_better) ==
  IF col \in df.columns
    THEN _normalize_series([i \in DOMAIN df.rows |-> df.rows[i][col]], higher_is_better)
    ELSE [i \in DOMAIN df.rows |-> Half]

\* a performance proxy that loses the 0.3 factor of the storage term
PerformanceUnscaled(ram, storage) ==
  RAdd(RMul(Rat(7, 10), ram), storage)

\* 0.7 * ram_score + 0.3 * storage_score
PerformanceMix(ram, storage) ==
  RAdd(RMul(Rat(7, 10), ram), RMul(Rat(3, 10), storage))

PerformanceScore(df, category) ==
  IF category \in PortableCategories
    THEN LET ram_score == ColumnScore(df, "ram_gb", TRUE)
             storage_score == ColumnScore(df, "storage_gb", TRUE)
         IN [i \in DOMAIN df.rows |-> PerformanceMix(ram_score[i], storage_score[i])]
    ELSE [i \in DOMAIN df.rows |-> Half]

\* df["score_continuous"], one value per row of df
ScoreContinuous(df, weights, category) ==
  LET price_score == ColumnScore(df, "price_usd", FALSE)
      performance_score == PerformanceScore(df, category)
      battery_score == ColumnScore(df, "battery_wh", TRUE)
      screen_score == ColumnScore(df, "screen_inches", TRUE)
  IN [i \in DOMAIN df.rows |->
        RAdd(RAdd(RMul(weights["price"], price_score[i]),
                  RMul(weights["performance"], performance_score[i])),
             RAdd(RMul(weights["battery"], battery_score[i]),
                  RMul(weights["screen"], screen_score[i])))]

\* int(round(score_float * 100)): round half to even
DisplayScore(score) ==
  LET x == RMul(score, RInt(100))
      fl == x.n \div x.d
      twice == 2 * (x.n - fl * x.d)
  IN IF twice < x.d THEN fl
     ELSE IF twice > x.d THEN fl + 1
     ELSE IF fl % 2 = 0 THEN fl ELSE fl + 1

\* the truth value Python gives a cell in "a or b"
Truthy(cell) ==
  CASE cell.t = "none" -> FALSE
    [] cell.t = "str" -> cell.v # <<>>
    [] cell.t = "num" -> cell.v # 0
    [] OTHER -> TRUE

\* row.get(col)
RowGet(row, col) == IF col \in DOMAIN row THEN row[col] ELSE PyNone

\* row.get("title") or row.get("model") or "Unknown product"
TitleOf(row) ==
  IF Truthy(RowGet(row, "title")) THEN RowGet(row, "title")
  ELSE IF Truthy(RowGet(row, "model")) THEN RowGet(row, "model")
  ELSE Str(s_unknown_product)

\* the scored copy of products: df with the column score_continuous
ScoredFrame(products, weights, category) ==
  LET sc == ScoreContinuous(products, weights, category)
  IN [columns |-> products.columns \cup {"score_continuous"},
      rows |-> [i \in DOMAIN products.rows |->
                  [c \in products.columns \cup {"score_continuous"} |->
                     IF c = "score_continuous" THEN sc[i] ELSE products.rows[i][c]]]]

RowOrders(n) == {p \in [1..n -> 1..n] : \A i, j \in 1..n : p[i] = p[j] => i = j}

\* df.sort_values("score_continuous", ascending=False) with the default
\* kind="quicksort", which is not a stable sort: every descending
\* arrangement of the rows is a possible result
sort_values(df) ==
  {[df EXCEPT !.rows = [i \in DOMAIN df.rows |-> df.rows[p[i]]]] :
     p \in {q \in RowOrders(Len(df.rows)) :
              \A i, j \in DOMAIN df.rows :
                 i < j => RLe(df.rows[q[j]]["score_continuous"],
                              df.rows[q[i]]["score_continuous"])}}

\* the text of the except branch: f"(Could not generate explanation: {e})"
Placeholder(e) == Str(<<"(Could not generate explanation: ", e, ")">>)

\* an except branch that leaves the explanation blank
ExplanationBlank(outcome) ==
  IF outcome.t = "raise" THEN Str(<<>>) ELSE outcome

\* the try/except around _build_explanation, given what chat_llm did
ExplanationOf(outcome) ==
  IF outcome.t = "raise" THEN Placeholder(outcome.v) ELSE outcome

\* results.append({...}) for one row of df_sorted
AppendResult(results, row, outcome) ==
  Append(results,
         [id |-> RowGet(row, "id"),
          title |-> TitleOf(row),
          score |-> DisplayScore(row["score_continuous"]),
          explanation |-> ExplanationOf(outcome)])

\* a loop that calls again for an item whose call raised
CallsWithRetry(calls, row, outcome) ==
  IF outcome.t = "raise"
    THEN Append(Append(calls, [id |-> RowGet(row, "id"), outcome |-> outcome]),
                [id |-> RowGet(row, "id"), outcome |-> outcome])
    ELSE Append(calls, [id |-> RowGet(row, "id"), outcome |-> outcome])

\* the calls of _build_explanation made so far, after the call for row
CallsAfterExplain(calls, row, outcome) ==
  Append(calls, [id |-> RowGet(row, "id"), outcome |-> outcome])

\* an empty ranking that reports the default category and its weights
EmptyRankingDefaults ==
  [results |-> <<>>, category |-> Str(s_laptop),
   weights |-> NormalizeWeights(BaseWeights(s_laptop))]

\* what rank_products returns for an empty or absent product set
EmptyRanking == [results |-> <<>>, category |-> PyNone, weights |-> <<>>]

\* products is None or products.empty
IsEmptyProducts(products) == products.t = "none" \/ products.v.rows = <<>>

(* ------------------------------------------------------------------ *)
(* intent_agent.py                                                     *)
(* ------------------------------------------------------------------ *)
\* the intent returned when the reply is not JSON
FallbackIntent(user_query) ==
  Dict([category |-> Str(s_laptop),
        budget_usd |-> PyNone,
        primary_goals |-> List(<<>>),
        hard_constraints |-> EmptyDict,
        notes |-> Str(user_query)])

\* json.loads(raw): None is a TypeError, a text that is not JSON a
\* JSONDecodeError, a JSON text its value
json_loads(raw) ==
  CASE raw.t = "none" -> Raised("TypeError")
    [] raw.t = "text" -> Raised("JSONDecodeError")
    [] OTHER -> raw.v

\* extract_intent, given what chat_llm did: raised, or returned raw
extract_intent(user_query, reply) ==
  IF reply.t = "raise" THEN reply
  ELSE IF json_loads(reply).t = "raise"
    THEN (IF json_loads(reply).v = "JSONDecodeError"
            THEN FallbackIntent(user_query)
            ELSE json_loads(reply))
  ELSE json_loads(reply)

(* ------------------------------------------------------------------ *)
(* The global catalog and the two functions that read it               *)
(* ------------------------------------------------------------------ *)
\* a filter that narrows the global frame itself instead of a copy
CatalogNarrowed(catalog_df, returned) == returned

\* _catalog_df after filter_products: the function works on
\* _catalog_df.copy() and on boolean selections, and never assigns the global
CatalogAfterFilter(catalog_df, returned) == catalog_df

\* _catalog_df after rank_products: score_continuous is written to
\* df = products.copy(), never to the frame it was given
CatalogAfterRank(catalog_df, scored) == catalog_df

(* ------------------------------------------------------------------ *)
(* Inputs of the model                                                 *)
(* ------------------------------------------------------------------ *)
AllColumns ==
  {"id", "title", "category", "price_usd", "ram_gb", "storage_gb",
   "battery_wh", "screen_inches"}

\* the column sets a loaded catalog may have
ColumnSets ==
  {AllColumns, {"id", "category", "storage_gb", "screen_inches"}}

Product(id, title, category, price, ram, storage, battery, screen) ==
  [id |-> Num(id), title |-> Str(title), category |-> Str(category),
   price_usd |-> price, ram_gb |-> ram, storage_gb |-> storage,
   battery_wh |-> battery, screen_inches |-> screen]

\* the products catalogs are drawn from, in catalog order
ProductPool ==
  << Product(1, <<"A">>, s_laptop, Num(850), Num(16), Num(512), Num(50), Num(14)),
     Product(2, <<"B">>, s_laptop, Num(950), Num(32), Num(1024), Num(70), Num(16)),
     Product(3, <<"C">>, s_laptop, Num(800), Num(64), Num(2048), Num(90), Num(17)),
     Product(4, <<>>, s_laptop, NaN, NaN, Num(512), NaN, Num(14)),
     Product(5, <<"E">>, s_monitor, Num(300), NaN, NaN, NaN, Num(27)),
     Product(6, <<"F">>, s_monitor, Num(200), NaN, NaN, NaN, Num(24)) >>

RECURSIVE PickRows(_, _)
PickRows(ids, from) ==
  IF from > Len(ProductPool) THEN <<>>
  ELSE IF from \in ids THEN <<ProductPool[from]>> \o PickRows(ids, from + 1)
  ELSE PickRows(ids, from + 1)

Restrict(row, cols) == [c \in cols |-> row[c]]

\* every catalog of at most MaxRows pool products, in pool order
Catalogs ==
  {LET picked == PickRows(ids, 1)
   IN [columns |-> cols,
       rows |-> [i \in DOMAIN picked |-> Restrict(picked[i], cols)]] :
     ids \in {S \in SUBSET DOMAIN ProductPool : Cardinality(S) <= MaxRows},
     cols \in ColumnSets}

q_tablet == <<"b","i","g"," ","S","c","r","e","e","n"," ","t","a","b","l","e","t">>
Queries == {<<>>, q_tablet}

g_battery_life == <<"b","a","t","t","e","r","y","_","l","i","f","e">>
g_gaming_speed == <<"G","a","m","i","n","g"," ","s","p","e","e","d">>
g_portability == <<"p","o","r","t","a","b","i","l","i","t","y">>
g_bigger_display == <<"b","i","g","g","e","r"," ","D","i","s","p","l","a","y">>

\* the intent of the prompt's own schema: budget_usd and hard_constraints
IntentSchema ==
  Dict([category |-> Str(s_laptop), budget_usd |-> Num(900),
        primary_goals |-> List(<<Str(g_battery_life)>>),
        hard_constraints |-> Dict([min_ram_gb |-> Num(16)]),
        notes |-> Str(<<>>)])

\* the intents a JSON reply may carry
Intents ==
  { IntentSchema,
    Dict([category |-> Str(s_laptop), budget_max |-> Num(900),
          min_ram_gb |-> Num(16)]),
    Dict([category |-> Str(<<" ","L","a","p","t","o","p"," ">>),
          budget |-> Str(<<"$","9","0","0">>),
          primary_goals |-> List(<<Str(s_cheap), Str(g_portability)>>)]),
    Dict([budget_max |-> PyNone, max_price |-> Str(s_cheap),
          price_cap |-> Num(900), min_storage |-> Str(<<" ","5","1","2">>)]),
    Dict([category |-> Str(s_laptop), min_ram |-> Num(64),
          primary_goals |-> List(<<Str(g_gaming_speed), Str(g_gaming_speed)>>)]),
    Dict([category |-> Str(s_monitor), primary_goals |-> Str(g_bigger_display),
          budget |-> Num(250)]),
    Dict([category |-> Str(<<"f","r","i","d","g","e">>), device_type |-> Str(s_phone)]),
    EmptyDict,
    Dict([primary_goals |-> List(<<Str(s_battery), Str(s_long_life)>>),
          min_battery_wh |-> Num(60), product_type |-> Str(s_laptop)]),
    Dict([category |-> Str(s_monitor), budget |-> Num(100),
          primary_goals |-> List(<<Str(s_cheap), Str(s_screen)>>)]) }

\* what the intent call of chat_llm may do: raise, return None (no
\* content), return a text that is not JSON, or return a JSON text
IntentReplies ==
  {Raised("APIError"), PyNone, [t |-> "text", v |-> <<"?">>],
   [t |-> "json", v |-> List(<<>>)], [t |-> "json", v |-> PyNone]}
  \cup {[t |-> "json", v |-> it] : it \in Intents}

\* what an explanation call of chat_llm may do
ExplainOutcomes == {Raised("APIError"), Str(<<"x">>), Str(<<"y">>)}

(* ------------------------------------------------------------------ *)
(* State                                                               *)
(* ------------------------------------------------------------------ *)
VARIABLES
  catalog,      \* _catalog_df
  loaded,       \* the catalog as it was loaded
  pc,           \* where run_pipeline is
  user_query,   \* its argument
  reply,        \* what the intent call of chat_llm did
  intent,       \* extract_intent's result
  products,     \* filter_products' result
  category,     \* rank_products: category
  weights,      \* rank_products: weights
  weight_calls, \* calls of _compute_weights in this query
  df_sorted,    \* rank_products: df_sorted
  results,      \* rank_products: results
  calls,        \* calls of _build_explanation in this query
  ranking,      \* rank_products' result
  exc,          \* the exception run_pipeline raised
  series,       \* _normalize_series: the column passed in
  higher_is_better, \* _normalize_series: the direction flag
  norm          \* _normalize_series' result

vars ==
  <<catalog, loaded, pc, user_query, reply, intent, products, category, weights,
    weight_calls, df_sorted, results, calls, ranking, exc, series,
    higher_is_better, norm>>

\* the variables of a call of _normalize_series on its own
probe == <<series, higher_is_better, norm>>

EmptyFrame == [columns |-> {}, rows |-> <<>>]

\* the query-local state before a query starts
Fresh ==
  /\ user_query = <<>>
  /\ reply = PyNone
  /\ intent = PyNone
  /\ products = PyNone
  /\ category = PyNone
  /\ weights = <<>>
  /\ weight_calls = 0
  /\ df_sorted = EmptyFrame
  /\ results = <<>>
  /\ calls = <<>>
  /\ ranking = PyNone
  /\ exc = PyNone
  /\ series = <<>>
  /\ higher_is_better = TRUE
  /\ norm = <<>>

Init ==
  /\ catalog \in Catalogs
  /\ loaded = catalog
  /\ pc = "idle"
  /\ Fresh

\* run_pipeline step 1: extract_intent(user_query)
ExtractIntent ==
  /\ pc = "idle"
  /\ \E q \in Queries, r \in IntentReplies :
       /\ user_query' = q
       /\ reply' = r
       /\ IF extract_intent(q, r).t = "raise"
            THEN /\ exc' = extract_intent(q, r)
                 /\ pc' = "raised"
                 /\ UNCHANGED intent
            ELSE /\ intent' = extract_intent(q, r)
                 /\ pc' = "filter"
                 /\ UNCHANGED exc
  /\ UNCHANGED <<catalog, loaded, products, category, weights, weight_calls,
                 df_sorted, results, calls, ranking>>
  /\ UNCHANGED probe

\* run_pipeline step 2: filter_products(intent, user_query)
FilterProducts ==
  /\ pc = "filter"
  /\ LET r == filter_products(catalog, intent, user_query)
     IN IF r.t = "raise"
          THEN /\ exc' = r
               /\ pc' = "raised"
               /\ UNCHANGED <<products, catalog>>
          ELSE /\ products' = r
               /\ catalog' = CatalogAfterFilter(catalog, r.v)
               /\ pc' = "rank"
               /\ UNCHANGED exc
  /\ UNCHANGED <<loaded, user_query, reply, intent, category, weights, weight_calls,
                 df_sorted, results, calls, ranking>>
  /\ UNCHANGED probe

\* run_pipeline step 3, rank_products with nothing to rank
RankEmpty ==
  /\ pc = "rank"
  /\ IsEmptyProducts(products)
  /\ ranking' = EmptyRanking
  /\ pc' = "done"
  /\ UNCHANGED <<catalog, loaded, user_query, reply, intent, products, category,
                 weights, weight_calls, df_sorted, results, calls, exc>>
  /\ UNCHANGED probe

\* rank_products up to the sort: category, weights, scores, df_sorted
RankScore ==
  /\ pc = "rank"
  /\ ~IsEmptyProducts(products)
  /\ LET cat == RankCategory(products.v)
         w == _compute_weights(intent, cat)
         df == ScoredFrame(products.v, w, cat)
     IN /\ category' = Str(cat)
        /\ weights' = w
        /\ weight_calls' = weight_calls + 1
        /\ df_sorted' \in sort_values(df)
        /\ catalog' = CatalogAfterRank(catalog, df)
  /\ pc' = "explain"
  /\ UNCHANGED <<loaded, user_query, reply, intent, products, results, calls,
                 ranking, exc>>
  /\ UNCHANGED probe

\* one iteration of the loop over df_sorted.iterrows()
Explain ==
  /\ pc = "explain"
  /\ Len(results) < Len(df_sorted.rows)
  /\ \E outcome \in ExplainOutcomes :
       LET row == df_sorted.rows[Len(results) + 1]
       IN /\ calls' = CallsAfterExplain(calls, row, outcome)
          /\ results' = AppendResult(results, row, outcome)
  /\ UNCHANGED <<catalog, loaded, pc, user_query, reply, intent, products, category,
                 weights, weight_calls, df_sorted, ranking, exc>>
  /\ UNCHANGED probe

\* the return of rank_products after the loop
RankReturn ==
  /\ pc = "explain"
  /\ Len(results) = Len(df_sorted.rows)
  /\ ranking' = [results |-> results, category |-> category, weights |-> weights]
  /\ pc' = "done"
  /\ UNCHANGED <<catalog, loaded, user_query, reply, intent, products, category,
                 weights, weight_calls, df_sorted, results, calls, exc>>
  /\ UNCHANGED probe

\* the caller takes the result or the exception; the next query may start
NextQuery ==
  /\ pc \in {"done", "raised"}
  /\ pc' = "idle"
  /\ user_query' = <<>>
  /\ reply' = PyNone
  /\ intent' = PyNone
  /\ products' = PyNone
  /\ category' = PyNone
  /\ weights' = <<>>
  /\ weight_calls' = 0
  /\ df_sorted' = EmptyFrame
  /\ results' = <<>>
  /\ calls' = <<>>
  /\ ranking' = PyNone
  /\ exc' = PyNone
  /\ UNCHANGED <<catalog, loaded>>
  /\ UNCHANGED probe

Next ==
  \/ ExtractIntent
  \/ FilterProducts
  \/ RankEmpty
  \/ RankScore
  \/ Explain
  \/ RankReturn
  \/ NextQuery

Spec == Init /\ [][Next]_vars

(* ------------------------------------------------------------------ *)
(* The weight resolver on its own                                      *)
(* ------------------------------------------------------------------ *)
GoalPool == {g_battery_life, g_gaming_speed, s_cheap, g_bigger_display, g_portability}

RECURSIVE SeqsUpTo(_, _)
SeqsUpTo(S, n) ==
  IF n = 0 THEN {<<>>}
  ELSE SeqsUpTo(S, n - 1) \cup
       {Append(q, x) : q \in {r \in SeqsUpTo(S, n - 1) : Len(r) = n - 1}, x \in S}

\* the values of primary_goals: None, a lone string, a list of strings
GoalValues ==
  {PyNone} \cup {Str(g) : g \in GoalPool}
  \cup {List([i \in DOMAIN q |-> Str(q[i])]) : q \in SeqsUpTo(GoalPool, MaxGoals)}

WeightCategories == KnownCategories \cup {<<"t","v">>}

InitWeights ==
  /\ catalog = EmptyFrame
  /\ loaded = EmptyFrame
  /\ pc = "idle"
  /\ Fresh

\* one call _compute_weights(intent, category)
ComputeWeights ==
  /\ pc = "idle"
  /\ \E g \in GoalValues, c \in WeightCategories :
       /\ intent' = Dict([primary_goals |-> g])
       /\ category' = Str(c)
       /\ weights' = _compute_weights(Dict([primary_goals |-> g]), c)
  /\ weight_calls' = weight_calls + 1
  /\ pc' = "weights"
  /\ UNCHANGED <<catalog, loaded, user_query, reply, products, df_sorted, results,
                 calls, ranking, exc>>
  /\ UNCHANGED probe

NextWeights == ComputeWeights

SpecWeights == InitWeights /\ [][NextWeights]_vars

(* ------------------------------------------------------------------ *)
(* detect_category on its own                                          *)
(* ------------------------------------------------------------------ *)
CategoryFields == <<"category", "device_type", "product_type">>

\* what one of the three intent fields may hold; PyNone also stands for
\* the field being absent, which intent.get turns into None
FieldValues ==
  {PyNone, Num(5), Str(<<" "," ">>), Str(<<"f","r","i","d","g","e">>),
   Str(<<" ","L","a","p","t","o","p"," ">>), Str(<<"P","H","O","N","E">>),
   Str(s_monitor)}

\* the intent with the three fields set; a None value leaves the key out
CategoryIntent(c, d, p) ==
  LET given == [category |-> c, device_type |-> d, product_type |-> p]
      keys == {k \in DOMAIN given : given[k].t # "none"}
  IN Dict([k \in keys |-> given[k]])

q_notebook == <<"n","e","e","d"," ","a"," ","N","o","t","e","b","o","o","k">>
q_ipad_display == <<"m","y"," ","i","P","a","d"," ","d","i","s","p","l","a","y">>
q_stable_mobile == <<"s","t","a","b","l","e"," ","m","o","b","i","l","e">>
q_wide_screen == <<"w","i","d","e"," ","S","C","R","E","E","N">>
q_headphones == <<"h","e","a","d","s","e","t">>

CategoryQueries ==
  {<<>>, q_tablet, q_notebook, q_ipad_display, q_stable_mobile, q_wide_screen,
   q_headphones}

InitCategory ==
  /\ catalog = EmptyFrame
  /\ loaded = EmptyFrame
  /\ pc = "idle"
  /\ Fresh

\* one call detect_category(intent, user_query)
DetectCategory ==
  /\ pc = "idle"
  /\ \E c \in FieldValues, d \in FieldValues, p \in FieldValues, q \in CategoryQueries :
       /\ intent' = CategoryIntent(c, d, p)
       /\ user_query' = q
       /\ category' = Str(detect_category(CategoryIntent(c, d, p), q))
  /\ pc' = "category"
  /\ UNCHANGED <<catalog, loaded, reply, products, weights, weight_calls, df_sorted,
                 results, calls, ranking, exc>>
  /\ UNCHANGED probe

NextCategory == DetectCategory

SpecCategory == InitCategory /\ [][NextCategory]_vars

(* ------------------------------------------------------------------ *)
(* _compute_weights step by step: the bumps, then the normalisation    *)
(* ------------------------------------------------------------------ *)
g_cheap_display == <<"C","h","e","a","p"," ","d","i","s","p","l","a","y">>
g_all_day_battery ==
  <<"a","l","l"," ","d","a","y"," ","B","a","t","t","e","r","y">>

BumpGoalPool ==
  {s_battery, s_long_life, g_battery_life, g_gaming_speed, g_cheap_display,
   g_all_day_battery, g_portability}

BumpGoalValues ==
  {PyNone} \cup {Str(g) : g \in BumpGoalPool}
  \cup {List([i \in DOMAIN q |-> Str(q[i])]) : q \in SeqsUpTo(BumpGoalPool, MaxGoals)}

InitBumps ==
  /\ catalog = EmptyFrame
  /\ loaded = EmptyFrame
  /\ pc = "idle"
  /\ Fresh

\* _compute_weights up to the end of its loop: weights holds the bumped
\* base weights
BumpGoals ==
  /\ pc = "idle"
  /\ \E g \in BumpGoalValues, c \in WeightCategories :
       /\ intent' = Dict([primary_goals |-> g])
       /\ category' = Str(c)
       /\ weights' = BumpedWeights(BaseWeights(c), GoalsLower(Dict([primary_goals |-> g])))
  /\ weight_calls' = weight_calls + 1
  /\ pc' = "bumped"
  /\ UNCHANGED <<catalog, loaded, user_query, reply, products, df_sorted, results,
                 calls, ranking, exc>>
  /\ UNCHANGED probe

\* the rest of _compute_weights: the normalised weights are returned
ReturnWeights ==
  /\ pc = "bumped"
  /\ weights' = NormalizeWeights(weights)
  /\ pc' = "weights"
  /\ UNCHANGED <<catalog, loaded, user_query, reply, intent, products, category,
                 weight_calls, df_sorted, results, calls, ranking, exc>>
  /\ UNCHANGED probe

NextBumps ==
  \/ BumpGoals
  \/ ReturnWeights

SpecBumps == InitBumps /\ [][NextBumps]_vars

(* ------------------------------------------------------------------ *)
(* _normalize_series on its own                                        *)
(* ------------------------------------------------------------------ *)
MaxSeries == 3

\* the cells of a column: missing, text that is no number, text that is one,
\* numbers, and two numbers that differ by less than 1e-09 of their size
Cells ==
  {NaN, PyNone, Str(<<"n","/","a">>), Str(<<"3","0">>), Num(-5), Num(10), Num(20),
   Num(1000000000), Num(1000000001)}

InitNormalize ==
  /\ catalog = EmptyFrame
  /\ loaded = EmptyFrame
  /\ pc = "idle"
  /\ Fresh

NormalizeSeries ==
  /\ pc = "idle"
  /\ \E col \in SeqsUpTo(Cells, MaxSeries), hib \in BOOLEAN :
       /\ series' = col
       /\ higher_is_better' = hib
       /\ norm' = _normalize_series(col, hib)
  /\ pc' = "normalized"
  /\ UNCHANGED <<catalog, loaded, user_query, reply, intent, products, category,
                 weights, weight_calls, df_sorted, results, calls, ranking, exc>>

NextNormalize == NormalizeSeries

SpecNormalize == InitNormalize /\ [][NextNormalize]_vars

(* ------------------------------------------------------------------ *)
(* Properties                                                          *)
(* ------------------------------------------------------------------ *)
Filtered == products.t = "frame"
\* filter_products has just returned
FilterReturned == pc = "rank"
Ranked == pc = "explain" \/ (pc = "done" /\ ~IsEmptyProducts(products))

CellNum(row, col) == IF row[col].t = "num" THEN row[col].v ELSE 0

\* the rows of the loaded catalog that have the category cat
CategoryRows(cat) ==
  SelectSeq(catalog.rows, LAMBDA r : r["category"].t = "str" /\ r["category"].v = cat)

\* C1: with the intent category=laptop, budget_usd=900,
\* hard_constraints={min_ram_gb:16} and a catalog whose laptops are exactly
\* one at $850 with 16 GB and one at $950 with 32 GB, filter_products
\* returns only the $850 laptop (budget_usd caps price_usd, min_ram_gb
\* bounds ram_gb from below).
C1_SchemaIntentFilters ==
  (/\ Filtered
   /\ intent = IntentSchema
   /\ catalog.columns = AllColumns
   /\ Len(CategoryRows(s_laptop)) = 2
   /\ CategoryRows(s_laptop)[1]["price_usd"] = Num(850)
   /\ CategoryRows(s_laptop)[1]["ram_gb"] = Num(16)
   /\ CategoryRows(s_laptop)[2]["price_usd"] = Num(950)
   /\ CategoryRows(s_laptop)[2]["ram_gb"] = Num(32))
  => products.v.rows = <<CategoryRows(s_laptop)[1]>>

\* the bound a constraint extracts, usable only when its column exists
HasBound(keys, col) == _get_float(intent, keys).t = "num" /\ col \in catalog.columns

\* the row meets every numeric constraint the intent yields
MeetsConstraints(r) ==
  /\ HasBound(BudgetKeys, "price_usd") =>
       r["price_usd"].t = "num" /\ r["price_usd"].v <= _get_float(intent, BudgetKeys).v
  /\ HasBound(MinRamKeys, "ram_gb") =>
       CellNum(r, "ram_gb") >= _get_float(intent, MinRamKeys).v
  /\ HasBound(MinStorageKeys, "storage_gb") =>
       CellNum(r, "storage_gb") >= _get_float(intent, MinStorageKeys).v
  /\ HasBound(MinBatteryKeys, "battery_wh") =>
       CellNum(r, "battery_wh") >= _get_float(intent, MinBatteryKeys).v

ResolvedRows == CategoryRows(detect_category(intent, user_query))
SatisfyingRows == SelectSeq(ResolvedRows, MeetsConstraints)

\* C2: filter_products returns the rows of the resolved category that meet
\* every extracted numeric constraint when there are any, and otherwise all
\* rows of the resolved category; every returned row has that category and
\* the result is empty only when the catalog has no row of it.
C2_FilterOrFallback ==
  FilterReturned =>
    /\ products.v.columns = catalog.columns
    /\ products.v.rows = (IF SatisfyingRows # <<>> THEN SatisfyingRows ELSE ResolvedRows)
    /\ \A i \in DOMAIN products.v.rows :
         products.v.rows[i]["category"].v = detect_category(intent, user_query)
    /\ (products.v.rows = <<>> => ResolvedRows = <<>>)

\* the over-constrained case: a bound was extracted, no row meets it, and
\* the whole category came back
C2_Witness ==
  /\ FilterReturned
  /\ HasBound(MinRamKeys, "ram_gb")
  /\ SatisfyingRows = <<>>
  /\ Len(products.v.rows) >= 2

IsFailure(outcome) == outcome.t = "raise"

\* C3: when explanation calls raise, every ranked product still has exactly
\* one result entry at the position the sort gave it, with the score it
\* would show otherwise; a failed item carries a non-empty placeholder text
\* and every other item the text its own call returned.
C3_FailuresKeepItems ==
  Ranked =>
    /\ Len(results) = Len(calls)
    /\ Len(results) <= Len(df_sorted.rows)
    /\ (pc = "done" => /\ Len(results) = Len(products.v.rows)
                       /\ ranking.results = results)
    /\ \A j \in DOMAIN results :
         /\ results[j].id = df_sorted.rows[j]["id"]
         /\ results[j].score = DisplayScore(df_sorted.rows[j]["score_continuous"])
         /\ results[j].explanation.t = "str"
         /\ IF IsFailure(calls[j].outcome)
              THEN results[j].explanation.v # <<>>
              ELSE results[j].explanation.v = calls[j].outcome.v
    /\ \A i \in DOMAIN products.v.rows :
         Cardinality({j \in DOMAIN df_sorted.rows :
                        df_sorted.rows[j]["id"] = products.v.rows[i]["id"]}) = 1

\* three ranked items, the call for the second one raised, the other two
\* returned different texts
C3_Witness ==
  /\ pc = "done"
  /\ Len(results) = 3
  /\ IsFailure(calls[2].outcome)
  /\ ~IsFailure(calls[1].outcome)
  /\ ~IsFailure(calls[3].outcome)
  /\ results[1].explanation # results[3].explanation

ReplyIsFailure ==
  \/ reply.t \in {"raise", "text"}
  \/ (reply.t = "none" /\ pc # "idle")
  \/ (reply.t = "json" /\ reply.v.t # "dict")

\* C4: when the intent call raises or returns malformed data (a null
\* reply, a text that is not JSON, JSON that is not an object) run_pipeline
\* raises nothing and goes on with the all-defaults intent.
C4_IntentFailureTolerated ==
  ReplyIsFailure =>
    /\ pc # "raised"
    /\ intent.t = "dict"
    /\ DictGet(intent, "category") = Str(s_laptop)
    /\ DictGet(intent, "budget_usd").t = "none"
    /\ DictGet(intent, "primary_goals") = List(<<>>)
    /\ DictGet(intent, "hard_constraints") = EmptyDict

InUnit(x) == RLe(RZero, x) /\ RLe(x, ROne)

C6_WeightsNormalized ==
  pc \in {"weights", "explain", "done"} /\ weight_calls > 0 =>
    /\ DOMAIN weights = CriteriaSet
    /\ \A k \in CriteriaSet : RLe(RZero, weights[k])
    /\ WeightTotal(weights) = ROne

\* a repeated goal: two bumps of performance on a monitor
C6_Witness ==
  /\ pc = "weights"
  /\ category = Str(s_monitor)
  /\ DictGet(intent, "primary_goals") = List(<<Str(g_gaming_speed), Str(g_gaming_speed)>>)
  /\ weights["performance"] = Rat(40, 130)
  /\ weights["battery"] = RZero

\* the place of the product with this id in the filtered input
InputPlace(id) == CHOOSE i \in DOMAIN products.v.rows : products.v.rows[i]["id"] = id

\* C7: the results are the stable descending sort of the input by
\* continuous score: scores never increase along the sequence and products
\* with equal score keep the order they had in the filtered input.
C7_StableDescending ==
  Ranked =>
    \A i, j \in DOMAIN df_sorted.rows :
      i < j =>
        /\ RLe(df_sorted.rows[j]["score_continuous"], df_sorted.rows[i]["score_continuous"])
        /\ (df_sorted.rows[j]["score_continuous"] = df_sorted.rows[i]["score_continuous"]
              => InputPlace(df_sorted.rows[i]["id"]) < InputPlace(df_sorted.rows[j]["id"]))

\* C8: within one rank_products call the explanation collaborator is called
\* at most once per ranked item, never for an item that is not ranked, and
\* in rank order: the calls so far are exactly the first ranked items.
C8_OneCallPerItemInOrder ==
  /\ Len(calls) <= Len(df_sorted.rows)
  /\ \A j \in DOMAIN calls : calls[j].id = df_sorted.rows[j]["id"]
  /\ \A j, k \in DOMAIN calls : calls[j].id = calls[k].id => j = k
  /\ (pc = "done" => Len(calls) = Len(df_sorted.rows))

\* a finished ranking of three items whose first call failed
C8_Witness ==
  /\ pc = "done"
  /\ Len(calls) = 3
  /\ IsFailure(calls[1].outcome)

\* C9: filter_products and rank_products leave the loaded catalog as it
\* was (same rows and columns, no score column), so what a query returns is
\* a function of the loaded catalog and of that query's own inputs.
C9_CatalogUnchanged ==
  /\ catalog = loaded
  /\ "score_continuous" \notin catalog.columns
  /\ (FilterReturned => products = filter_products(loaded, intent, user_query))
  /\ (pc = "explain" /\ results = <<>> =>
        df_sorted \in sort_values(
          ScoredFrame(filter_products(loaded, intent, user_query).v,
                      _compute_weights(intent, RankCategory(products.v)),
                      RankCategory(products.v))))

\* a finished query that kept only part of the catalog and ranked it
C9_Witness ==
  /\ pc = "done"
  /\ Len(results) >= 2
  /\ Len(products.v.rows) < Len(catalog.rows)
  /\ "score_continuous" \in df_sorted.columns

\* C10: rank_products on an empty product set returns exactly
\* {results: [], category: None, weights: {}}, raises nothing, and calls
\* neither the explanation collaborator nor the weight resolver.
C10_EmptyRanking ==
  (pc = "done" /\ IsEmptyProducts(products)) =>
    /\ DOMAIN ranking = {"results", "category", "weights"}
    /\ ranking.results = <<>>
    /\ ranking.category.t = "none"
    /\ ranking.weights = <<>>
    /\ exc.t = "none"
    /\ calls = <<>>
    /\ weight_calls = 0

\* a query whose category has no product in a non-empty catalog
C10_Witness ==
  /\ pc = "done"
  /\ IsEmptyProducts(products)
  /\ catalog.rows # <<>>

\* the trimmed, lower-cased text of an intent field when it is a string
\* naming one of the four categories
FieldNamesCategory(k) ==
  /\ DictGet(intent, k).t = "str"
  /\ Lower(Strip(DictGet(intent, k).v)) \in {s_laptop, s_phone, s_tablet, s_monitor}

\* the category has a keyword inside the lower-cased query
QueryMentions(i) ==
  \E j \in DOMAIN CATEGORY_KEYWORDS[i].keywords :
     Contains(Lower(user_query), CATEGORY_KEYWORDS[i].keywords[j])

TableOrder == <<s_laptop, s_phone, s_tablet, s_monitor>>

\* C11: detect_category returns one of laptop, phone, tablet, monitor: the
\* first of category, device_type, product_type whose trimmed lower-cased
\* value is a known category, whatever the query says; else the first of
\* laptop, phone, tablet, monitor with a keyword inside the lower-cased
\* query; else laptop.
C11_CategoryPrecedence ==
  pc = "category" =>
    /\ category.v \in {s_laptop, s_phone, s_tablet, s_monitor}
    /\ \A f \in DOMAIN CategoryFields :
         (FieldNamesCategory(CategoryFields[f])
            /\ \A e \in 1..(f - 1) : ~FieldNamesCategory(CategoryFields[e]))
         => category.v = Lower(Strip(DictGet(intent, CategoryFields[f]).v))
    /\ (\A f \in DOMAIN CategoryFields : ~FieldNamesCategory(CategoryFields[f])) =>
         /\ \A i \in DOMAIN TableOrder :
              (QueryMentions(i) /\ \A e \in 1..(i - 1) : ~QueryMentions(e))
              => category.v = TableOrder[i]
         /\ (\A i \in DOMAIN TableOrder : ~QueryMentions(i)) => category.v = s_laptop

\* no field names a category (one is unknown, one is blank) and the query
\* mentions both a tablet keyword and a monitor keyword: tablet wins
C11_Witness ==
  /\ pc = "category"
  /\ DictGet(intent, "category") = Str(<<"f","r","i","d","g","e">>)
  /\ DictGet(intent, "device_type") = Str(<<" "," ">>)
  /\ DictGet(intent, "product_type").t = "none"
  /\ user_query = q_ipad_display
  /\ category = Str(s_tablet)

\* the goals as given: none, the lone string, or the strings of the list
GivenGoals ==
  LET g == DictGet(intent, "primary_goals")
  IN CASE g.t = "str" -> <<g.v>>
       [] g.t = "list" -> [i \in DOMAIN g.v |-> g.v[i].v]
       [] OTHER -> <<>>

\* the keyword group of a criterion
KeywordGroup(k) ==
  CASE k = "performance" -> {s_performance, s_speed, s_gaming}
    [] k = "battery" -> {s_battery, s_long_life, s_all_day}
    [] k = "price" -> {s_budget, s_cheap, s_affordable, s_price}
    [] OTHER -> {s_screen, s_display, s_bigger}

\* how many of the given goals mention a keyword of the criterion
MatchingGoals(k) ==
  Cardinality({i \in DOMAIN GivenGoals :
                 \E w \in KeywordGroup(k) : Contains(Lower(GivenGoals[i]), w)})

\* C12: before renormalisation every goal adds 0.15 to a criterion exactly
\* when the lower-cased goal contains a keyword of the criterion's group,
\* once per goal and criterion; bumps of different goals add up without a
\* cap and a criterion no goal matches keeps its base weight.  So
\* ["battery_life"] on a laptop gives battery 0.45 and performance 0.40, and
\* ["battery", "long life"] gives battery 0.60.
C12_BumpsAccumulate ==
  pc = "bumped" =>
    /\ \A k \in CriteriaSet :
         weights[k] = RAdd(BaseWeights(category.v)[k], Rat(15 * MatchingGoals(k), 100))
    /\ (category.v = s_laptop /\ GivenGoals = <<g_battery_life>>) =>
         /\ weights["battery"] = Rat(45, 100)
         /\ weights["performance"] = Rat(40, 100)
    /\ (category.v = s_laptop /\ GivenGoals = <<s_battery, s_long_life>>) =>
         /\ weights["battery"] = Rat(60, 100)
         /\ weights["price"] = Rat(30, 100)

\* two goals bump battery, one of them with two battery keywords in it, and
\* battery passes one half
C12_Witness ==
  /\ pc = "bumped"
  /\ category = Str(s_laptop)
  /\ GivenGoals = <<g_all_day_battery, s_long_life>>
  /\ weights["battery"] = Rat(60, 100)
  /\ weights["performance"] = Rat(40, 100)

\* the places of the series that hold a number or the text of one
UsablePlaces == {i \in DOMAIN series : ToNumeric(series[i]).t = "num"}
UsableValue(i) == ToNumeric(series[i]).v
LeastUsable == CHOOSE x \in {UsableValue(i) : i \in UsablePlaces} :
                 \A j \in UsablePlaces : x <= UsableValue(j)
GreatestUsable == CHOOSE x \in {UsableValue(i) : i \in UsablePlaces} :
                    \A j \in UsablePlaces : UsableValue(j) <= x
LargestSize ==
  IF Abs(LeastUsable) >= Abs(GreatestUsable) THEN Abs(LeastUsable)
  ELSE Abs(GreatestUsable)

\* the usable values are min-max scaled, in the direction of the flag
ScaledOverUsable ==
  \A i \in UsablePlaces :
    /\ norm[i] = (IF higher_is_better
                    THEN Rat(UsableValue(i) - LeastUsable, GreatestUsable - LeastUsable)
                    ELSE Rat(GreatestUsable - UsableValue(i), GreatestUsable - LeastUsable))
    /\ UsableValue(i) = LeastUsable => norm[i] = (IF higher_is_better THEN RZero ELSE ROne)
    /\ UsableValue(i) = GreatestUsable => norm[i] = (IF higher_is_better THEN ROne ELSE RZero)

\* same length, in [0,1], 0.5 where there is no number
NormShape ==
  /\ Len(norm) = Len(series)
  /\ \A i \in DOMAIN norm : InUnit(norm[i])
  /\ \A i \in DOMAIN series \ UsablePlaces : norm[i] = Half

AllHalf == \A i \in DOMAIN norm : norm[i] = Half

====
